---- MODULE Spec2Model ----
(***************************************************************************)
(* Whisper-to-Me: the hotkey-driven recording state machine and the        *)
(* orchestrator (class WhisperToMe), with the key-listener thread, the     *)
(* tray thread and the audio-stream callback as concurrent processes.      *)
(***************************************************************************)
EXTENDS Integers, Sequences, FiniteSets, TLC

VARIABLES
    entry,              \* which entry point runs: the package or the script
    config,             \* self.config (resolved recording settings)
    current_profile,    \* config_manager.current_profile
    is_recording,       \* self.is_recording
    trigger_pressed,    \* self.trigger_pressed
    recording_counter,  \* self.recording_counter
    tap_mode,           \* self.tap_mode
    trigger_hotkey,     \* self.trigger_hotkey (a keyboard.HotKey)
    discard_hotkey,     \* self.discard_hotkey (a keyboard.HotKey or None)
    audio_recorder,     \* self.audio_recorder (is_recording, audio_data, device)
    dm_device,          \* device_manager._current_device and _device_config
    orphans,            \* replaced recorders that are still capturing
    down,               \* raw keys physically held (as delivered so far)
    kpc,                \* key-listener thread: idle, transcribing, dead
    kkey,               \* key whose press handler is suspended in transcribe
    tpc,                \* tray thread: position inside switch_profile
    out,                \* events raised by the last step
    hist,               \* the last three semantic events
    cm_config,          \* config_manager._config (base settings and profiles)
    file,               \* the persisted configuration file
    speech_processor,   \* self.speech_processor (settings it was built with)
    sp_old,             \* switch_profile locals old_language/model/device
    handed,             \* the session inside transcribe: what it was handed
    lockfs,             \* the lock file: inode the path names, flock holders
    procs               \* processes at the single-instance lock: pc and fd

vars == <<entry, config, current_profile, is_recording, trigger_pressed,
          recording_counter, tap_mode, trigger_hotkey, discard_hotkey,
          audio_recorder, dm_device, orphans, down, kpc, kkey, tpc, out,
          hist, cm_config, file, speech_processor, sp_old, handed, lockfs,
          procs>>

\* the lock file and the processes that compete for it
lockvars == <<lockfs, procs>>

\* the state of the configuration manager, the file and the transcriber
cmvars == <<cm_config, file, speech_processor, sp_old>>

----------------------------------------------------------------------------
(* Bounds of the model *)

MaxSessions == 2     \* completed sessions after which no key is pressed
MaxAudio == 1        \* chunks the stream delivers into one buffer
MaxOrphans == 1      \* replaced recorders left capturing
NumProcs == 3        \* processes that are started
MaxInodes == 2       \* lock files created

----------------------------------------------------------------------------
(* Keys, key strings and configurations *)

RawKeys == {"ctrl_l", "f9", "esc"}

\* Listener.canonical: left/right modifiers compare equal
Canonical(key) == IF key = "ctrl_l" THEN "ctrl" ELSE key

\* keyboard.HotKey.parse on the key strings the configurations use
Parse(s) ==
    CASE s = "<ctrl>+<f9>" -> {"ctrl", "f9"}
      [] s = "<f9>" -> {"f9"}
      [] s = "<esc>" -> {"esc"}
      [] s = "<scroll_lock>" -> {"scroll_lock"}
      [] OTHER -> {}

\* the key strings keyboard.HotKey.parse accepts; on any other it raises
\* ValueError
Parseable(s) == s \in {"<ctrl>+<f9>", "<f9>", "<esc>", "<scroll_lock>"}

Devices == {"dev0", "dev1"}

DEFAULT_PROFILE == "default"

\* ConfigManager._get_default_config: the built-in defaults (sections
\* flattened; last_profile belongs to general, initial_prompt to advanced)
DefaultConfig ==
    [language |-> "auto", model |-> "large-v3", device |-> "cuda",
     initial_prompt |-> "", last_profile |-> DEFAULT_PROFILE,
     mode |-> "push-to-talk", trigger_key |-> "<scroll_lock>",
     discard_key |-> "<esc>", trailing_space |-> FALSE,
     audio_device |-> "none"]

\* the base configuration of the file: the user bound <ctrl>+<f9>
BaseConfig ==
    [language |-> "auto", model |-> "large-v3", device |-> "cuda",
     initial_prompt |-> "", last_profile |-> DEFAULT_PROFILE,
     mode |-> "push-to-talk", trigger_key |-> "<ctrl>+<f9>",
     discard_key |-> "<esc>", trailing_space |-> FALSE,
     audio_device |-> "none"]

\* the profile store: sparse overrides of the base configuration
ProfileStore ==
    [tap |-> [mode |-> "tap-mode", trigger_key |-> "<f9>",
              trailing_space |-> TRUE]]

ProfileNames == {DEFAULT_PROFILE} \cup DOMAIN ProfileStore

\* an apply_diff that gives up on a diff with a field the schema lacks
ApplyDiffRejectsUnknown(cfg, diff) ==
    IF DOMAIN diff \subseteq DOMAIN cfg
    THEN [f \in DOMAIN cfg |-> IF f \in DOMAIN diff THEN diff[f] ELSE cfg[f]]
    ELSE cfg

\* ConfigDiffer.apply_diff: the fields the diff names and the configuration
\* does not have, each of which is logged as a warning and skipped
UnknownFields(cfg, diff) == DOMAIN diff \ DOMAIN cfg

\* ConfigDiffer.apply_diff: known fields of the diff replace the base's
ApplyDiff(cfg, diff) ==
    [f \in DOMAIN cfg |-> IF f \in DOMAIN diff THEN diff[f] ELSE cfg[f]]

\* ConfigDiffer.create_diff over all sections: the fields that differ from
\* the defaults, last_profile excluded
CreateProfileData(cfg, default) ==
    [f \in {g \in DOMAIN cfg \ {"last_profile"} : cfg[g] # default[g]}
       |-> cfg[f]]

\* an apply_profile that looks the name up in the store first
ApplyProfileOverStored(cm, name) ==
    IF name \in DOMAIN cm.profiles
    THEN [ApplyDiff(cm.cfg, cm.profiles[name]) EXCEPT !.last_profile = name]
    ELSE cm.cfg

\* ConfigManager.apply_profile: the configuration it returns
ApplyProfileOver(cm, name) ==
    IF name = DEFAULT_PROFILE THEN cm.cfg
    ELSE IF name \notin DOMAIN cm.profiles THEN cm.cfg
    ELSE [ApplyDiff(cm.cfg, cm.profiles[name]) EXCEPT !.last_profile = name]

\* ConfigManager.apply_profile: the current profile it leaves
CurrentAfterApply(cm, cur, name) ==
    IF name = DEFAULT_PROFILE THEN DEFAULT_PROFILE
    ELSE IF name \notin DOMAIN cm.profiles THEN cur
    ELSE name

\* ConfigManager.apply_profile: the warnings apply_diff logs on the way
ApplyWarnings(cm, name) ==
    IF name # DEFAULT_PROFILE /\ name \in DOMAIN cm.profiles
       /\ UnknownFields(cm.cfg, cm.profiles[name]) # {}
    THEN <<"UnknownFieldWarning">>
    ELSE <<>>

InitialManager == [cfg |-> BaseConfig, profiles |-> ProfileStore]

ApplyProfile(name) == ApplyProfileOver(InitialManager, name)

\* SpeechProcessor(model_size, device, language) as the orchestrator builds it
SpeechProcessorFor(cfg) ==
    [model |-> cfg.model, device |-> cfg.device, language |-> cfg.language]

\* the comparison switch_profile makes before it rebuilds the transcriber
SpeechSettingsChanged(old, new) ==
    \/ old.language # new.language
    \/ old.model # new.model
    \/ old.device # new.device

----------------------------------------------------------------------------
(* keyboard.HotKey: a key set, the subset currently pressed, a callback *)

NoHotKey == [keys |-> {}, state |-> {}, cb |-> "none"]

NewHotKey(keys, cb) == [keys |-> keys, state |-> {}, cb |-> cb]

HotKeyActivates(hk, k) ==
    k \in hk.keys /\ k \notin hk.state /\ hk.state \cup {k} = hk.keys

HotKeyPress(hk, k) ==
    IF k \in hk.keys /\ k \notin hk.state
    THEN [hk EXCEPT !.state = @ \cup {k}]
    ELSE hk

HotKeyRelease(hk, k) == [hk EXCEPT !.state = @ \ {k}]

TriggerHotKeyFor(cfg) ==
    NewHotKey(Parse(cfg.trigger_key),
              IF cfg.mode = "tap-mode" THEN "tap" ELSE "press")

DiscardHotKeyFor(cfg) ==
    IF cfg.mode = "tap-mode"
    THEN NewHotKey(Parse(cfg.discard_key), "discard")
    ELSE NoHotKey

----------------------------------------------------------------------------
(* AudioRecorder *)

NewRecorder(dev) == [is_recording |-> FALSE, audio_data |-> 0, device |-> dev]

RecStart(rec) ==
    IF rec.is_recording THEN rec
    ELSE [rec EXCEPT !.is_recording = TRUE, !.audio_data = 0]

\* length of the array stop_recording returns (0 for None)
RecStopAudio(rec) == IF ~rec.is_recording THEN 0 ELSE rec.audio_data

RecStop(rec) ==
    IF ~rec.is_recording THEN rec
    ELSE [rec EXCEPT !.is_recording = FALSE, !.audio_data = 0]

----------------------------------------------------------------------------
(* The orchestrator's callbacks, as functions of the state they touch *)

SemanticEvents == {"StartRecording", "StopAndTranscribe", "DiscardRecording"}

PushHist(h, e) ==
    IF Len(h) < 3 THEN Append(h, e) ELSE Append(Tail(h), e)

Emit(st, e) ==
    [st EXCEPT !.out = Append(@, e),
               !.hist = IF e \in SemanticEvents THEN PushHist(@, e) ELSE @]

\* the processes that are started
Procs == 1 .. NumProcs

Inodes == 1 .. MaxInodes

\* the lock file does not exist (path 0) and no inode is locked (holder 0)
NoLockFile == [path |-> 0, made |-> 0, holder |-> [i \in Inodes |-> 0]]

\* a process before main() has reached SingleInstance()
NotStarted == [pc |-> "off", fd |-> 0]

\* no session is inside transcribe
NoSession == <<>>

\* what a session is handed when its capture stops: the transcriber and the
\* trailing-space setting of that moment
InForce ==
    <<[trailing_space |-> config.trailing_space, sp |-> speech_processor]>>

AppState ==
    [is_recording |-> is_recording, trigger_pressed |-> trigger_pressed,
     rec |-> audio_recorder, out |-> <<>>, hist |-> hist, kpc |-> kpc]

\* a stop that hands whatever it got to the transcriber
StopAndTranscribeAlways(st) ==
    [Emit([st EXCEPT !.is_recording = FALSE, !.rec = RecStop(@)],
          "StopAndTranscribe") EXCEPT !.kpc = "transcribing"]

StopAndTranscribe(st) ==
    LET audio == RecStopAudio(st.rec)
        s1 == Emit([st EXCEPT !.is_recording = FALSE, !.rec = RecStop(@)],
                   "StopAndTranscribe")
    IN  IF audio > 0
        THEN [s1 EXCEPT !.kpc = "transcribing"]
        ELSE Emit(s1, "NoAudio")

\* a discard that forgets to clear the recording flag
DiscardRecordingKeepsFlag(st) ==
    Emit([st EXCEPT !.rec = RecStop(@)], "DiscardRecording")

DiscardRecording(st) ==
    Emit([st EXCEPT !.is_recording = FALSE, !.rec = RecStop(@)],
         "DiscardRecording")

StartSession(st) ==
    Emit([st EXCEPT !.is_recording = TRUE, !.rec = RecStart(@)],
         "StartRecording")

OnTriggerTap(st) ==
    IF ~st.is_recording THEN StartSession(st) ELSE StopAndTranscribe(st)

\* a press callback without the already-recording guard
OnTriggerPressUnguarded(st) ==
    StartSession([st EXCEPT !.trigger_pressed = TRUE])

OnTriggerPress(st) ==
    LET s1 == [st EXCEPT !.trigger_pressed = TRUE]
    IN  IF ~s1.is_recording THEN StartSession(s1) ELSE Emit(s1, "StartIgnored")

OnDiscardTap(st) ==
    IF st.is_recording THEN DiscardRecording(st) ELSE st

Activate(hk, st) ==
    CASE hk.cb = "tap" -> OnTriggerTap(st)
      [] hk.cb = "press" -> OnTriggerPress(st)
      [] hk.cb = "discard" -> OnDiscardTap(st)
      [] OTHER -> st

\* hotkey.press(canonical_key) on the orchestrator state
PressOn(hk, k, st) ==
    IF hk.cb # "none" /\ HotKeyActivates(hk, k) THEN Activate(hk, st) ELSE st

Commit(st) ==
    /\ is_recording' = st.is_recording
    /\ trigger_pressed' = st.trigger_pressed
    /\ audio_recorder' = st.rec
    /\ out' = st.out
    /\ hist' = st.hist
    /\ kpc' = st.kpc

----------------------------------------------------------------------------
Init ==
    /\ entry \in {"package", "script"}
    /\ current_profile \in ProfileNames
    /\ config = ApplyProfile(current_profile)
    /\ is_recording = FALSE
    /\ trigger_pressed = FALSE
    /\ recording_counter = 0
    /\ tap_mode = (config.mode = "tap-mode")
    /\ trigger_hotkey = TriggerHotKeyFor(config)
    /\ discard_hotkey = DiscardHotKeyFor(config)
    /\ audio_recorder = NewRecorder("dev0")
    /\ dm_device = "dev0"
    /\ orphans = 0
    /\ down = {}
    /\ kpc = "idle"
    /\ kkey = "none"
    /\ tpc = "idle"
    /\ out = <<>>
    /\ hist = <<>>
    /\ cm_config = InitialManager
    /\ file = InitialManager
    /\ speech_processor = SpeechProcessorFor(config)
    /\ sp_old = SpeechProcessorFor(config)
    /\ handed = NoSession
    /\ lockfs = NoLockFile
    /\ procs = [p \in Procs |-> NotStarted]

----------------------------------------------------------------------------
(* Key-listener thread *)

\* a listener that handles a press while a transcription is running
OnKeyPressWhileTranscribing(key) ==
    LET k == Canonical(key)
        s1 == PressOn(trigger_hotkey, k, AppState)
        suspended == s1.kpc = "transcribing"
        s2 == IF suspended THEN s1 ELSE PressOn(discard_hotkey, k, s1)
    IN  /\ kpc # "dead"
        /\ recording_counter < MaxSessions
        /\ down' = down \cup {key}
        /\ trigger_hotkey' = HotKeyPress(trigger_hotkey, k)
        /\ discard_hotkey' = IF suspended THEN discard_hotkey
                             ELSE HotKeyPress(discard_hotkey, k)
        /\ kkey' = IF suspended THEN k ELSE "none"
        /\ Commit(s2)
        /\ handed' = IF s2.kpc = "transcribing" THEN InForce ELSE handed
        /\ UNCHANGED cmvars
        /\ UNCHANGED lockvars
        /\ UNCHANGED <<entry, config, current_profile, recording_counter,
                       tap_mode, dm_device, orphans, tpc>>

\* Listener on_press: the trackers see the key, callbacks run in the thread
OnKeyPress(key) ==
    LET k == Canonical(key)
        s1 == PressOn(trigger_hotkey, k, AppState)
        suspended == s1.kpc = "transcribing"
        s2 == IF suspended THEN s1 ELSE PressOn(discard_hotkey, k, s1)
    IN  /\ kpc = "idle"
        /\ recording_counter < MaxSessions
        /\ down' = down \cup {key}
        /\ trigger_hotkey' = HotKeyPress(trigger_hotkey, k)
        /\ discard_hotkey' = IF suspended THEN discard_hotkey
                             ELSE HotKeyPress(discard_hotkey, k)
        /\ kkey' = IF suspended THEN k ELSE "none"
        /\ Commit(s2)
        /\ handed' = IF s2.kpc = "transcribing" THEN InForce ELSE handed
        /\ UNCHANGED cmvars
        /\ UNCHANGED lockvars
        /\ UNCHANGED <<entry, config, current_profile, recording_counter,
                       tap_mode, dm_device, orphans, tpc>>

\* a release handler that stops only on the release of a trigger member
OnKeyReleaseMemberOnly(key) ==
    LET k == Canonical(key)
        st == AppState
        s1 == IF ~tap_mode /\ trigger_pressed /\ is_recording
                 /\ k \in trigger_hotkey.keys
              THEN StopAndTranscribe([st EXCEPT !.trigger_pressed = FALSE])
              ELSE st
    IN  /\ kpc = "idle"
        /\ key \in down
        /\ down' = down \ {key}
        /\ trigger_hotkey' = HotKeyRelease(trigger_hotkey, k)
        /\ discard_hotkey' = HotKeyRelease(discard_hotkey, k)
        /\ kkey' = "none"
        /\ Commit(s1)
        /\ handed' = IF s1.kpc = "transcribing" THEN InForce ELSE handed
        /\ UNCHANGED cmvars
        /\ UNCHANGED lockvars
        /\ UNCHANGED <<entry, config, current_profile, recording_counter,
                       tap_mode, dm_device, orphans, tpc>>

OnKeyRelease(key) ==
    LET k == Canonical(key)
        st == AppState
        s1 == IF ~tap_mode /\ trigger_pressed /\ is_recording
              THEN StopAndTranscribe([st EXCEPT !.trigger_pressed = FALSE])
              ELSE st
    IN  /\ kpc = "idle"
        /\ key \in down
        /\ down' = down \ {key}
        /\ trigger_hotkey' = HotKeyRelease(trigger_hotkey, k)
        /\ discard_hotkey' = HotKeyRelease(discard_hotkey, k)
        /\ kkey' = "none"
        /\ Commit(s1)
        /\ handed' = IF s1.kpc = "transcribing" THEN InForce ELSE handed
        /\ UNCHANGED cmvars
        /\ UNCHANGED lockvars
        /\ UNCHANGED <<entry, config, current_profile, recording_counter,
                       tap_mode, dm_device, orphans, tpc>>

\* a completion that counts the session only when text was typed
TranscribeReturnCountsTyped(outcome) ==
    LET st == [AppState EXCEPT !.kpc = "idle"]
        s0 == IF outcome = "error" THEN Emit(st, "TranscriptionError") ELSE st
        s1 == Emit(s0, IF outcome = "text" THEN "Type" ELSE "NoSpeech")
        sp == IF outcome = "text" /\ config.trailing_space
              THEN Emit(s1, "AddSpace") ELSE s1
        s2 == IF kkey = "none" THEN sp ELSE PressOn(discard_hotkey, kkey, sp)
    IN  /\ kpc = "transcribing"
        /\ IF outcome = "typefail"
           THEN /\ kpc' = "dead"
                /\ out' = <<"TypeError">>
                /\ UNCHANGED <<recording_counter, discard_hotkey, kkey,
                               is_recording, trigger_pressed, audio_recorder,
                               hist>>
           ELSE /\ recording_counter' = IF outcome = "text"
                                        THEN recording_counter + 1
                                        ELSE recording_counter
                /\ discard_hotkey' = IF kkey = "none" THEN discard_hotkey
                                     ELSE HotKeyPress(discard_hotkey, kkey)
                /\ kkey' = "none"
                /\ Commit(s2)
        /\ handed' = NoSession
        /\ UNCHANGED cmvars
        /\ UNCHANGED lockvars
        /\ UNCHANGED <<entry, config, current_profile, tap_mode,
                       trigger_hotkey, dm_device, orphans, down, tpc>>

\* speech_processor.transcribe returns (or the typing fails) and the
\* suspended handler runs to its end
TranscribeReturn(outcome) ==
    LET st == [AppState EXCEPT !.kpc = "idle"]
        s0 == IF outcome = "error" THEN Emit(st, "TranscriptionError") ELSE st
        s1 == Emit(s0, IF outcome = "text" THEN "Type" ELSE "NoSpeech")
        sp == IF outcome = "text" /\ config.trailing_space
              THEN Emit(s1, "AddSpace") ELSE s1
        s2 == IF kkey = "none" THEN sp ELSE PressOn(discard_hotkey, kkey, sp)
    IN  /\ kpc = "transcribing"
        /\ IF outcome = "typefail"
           THEN /\ kpc' = "dead"
                /\ out' = <<"TypeError">>
                /\ UNCHANGED <<recording_counter, discard_hotkey, kkey,
                               is_recording, trigger_pressed, audio_recorder,
                               hist>>
           ELSE /\ recording_counter' = recording_counter + 1
                /\ discard_hotkey' = IF kkey = "none" THEN discard_hotkey
                                     ELSE HotKeyPress(discard_hotkey, kkey)
                /\ kkey' = "none"
                /\ Commit(s2)
        /\ handed' = NoSession
        /\ UNCHANGED cmvars
        /\ UNCHANGED lockvars
        /\ UNCHANGED <<entry, config, current_profile, tap_mode,
                       trigger_hotkey, dm_device, orphans, down, tpc>>

----------------------------------------------------------------------------
(* Audio stream callback *)

AudioCallback ==
    /\ kpc # "dead"
    /\ audio_recorder.is_recording
    /\ audio_recorder.audio_data < MaxAudio
    /\ audio_recorder' = [audio_recorder EXCEPT !.audio_data = @ + 1]
    /\ out' = <<>>
    /\ UNCHANGED cmvars
    /\ UNCHANGED lockvars
    /\ UNCHANGED <<entry, handed, config, current_profile, is_recording,
                   trigger_pressed, recording_counter, tap_mode,
                   trigger_hotkey, discard_hotkey, dm_device, orphans, down,
                   kpc, kkey, tpc, hist>>

----------------------------------------------------------------------------
(* Tray thread: switch_profile, statement by statement *)

SwitchProfileBegin(name) ==
    /\ kpc # "dead"
    /\ tpc = "idle"
    /\ config' = ApplyProfileOver(cm_config, name)
    /\ current_profile' = CurrentAfterApply(cm_config, current_profile, name)
    /\ sp_old' = SpeechProcessorFor(config)
    /\ tpc' = "sp_trigger"
    /\ out' = <<"profile_switched", name>>
    /\ UNCHANGED <<cm_config, file, speech_processor>>
    /\ UNCHANGED lockvars
    /\ UNCHANGED <<entry, handed, is_recording, trigger_pressed, recording_counter,
                   tap_mode, trigger_hotkey, discard_hotkey, audio_recorder,
                   dm_device, orphans, down, kpc, kkey, hist>>

\* a rebuild that leaves the trigger tracker of the old profile in place
UpdateTriggerHotkeyKeepsOld ==
    /\ kpc # "dead"
    /\ tpc = "sp_trigger"
    /\ tpc' = "sp_discard"
    /\ out' = <<>>
    /\ UNCHANGED cmvars
    /\ UNCHANGED lockvars
    /\ UNCHANGED <<entry, handed, config, current_profile, is_recording,
                   trigger_pressed, recording_counter, tap_mode,
                   trigger_hotkey, discard_hotkey, audio_recorder, dm_device,
                   orphans, down, kpc, kkey, hist>>

UpdateTriggerHotkey ==
    /\ kpc # "dead"
    /\ tpc = "sp_trigger"
    /\ trigger_hotkey' = TriggerHotKeyFor(config)
    /\ tpc' = "sp_discard"
    /\ out' = <<>>
    /\ UNCHANGED cmvars
    /\ UNCHANGED lockvars
    /\ UNCHANGED <<entry, handed, config, current_profile, is_recording,
                   trigger_pressed, recording_counter, tap_mode,
                   discard_hotkey, audio_recorder, dm_device, orphans, down,
                   kpc, kkey, hist>>

UpdateDiscardHotkey ==
    /\ kpc # "dead"
    /\ tpc = "sp_discard"
    /\ discard_hotkey' = DiscardHotKeyFor(config)
    /\ tpc' = "sp_mode"
    /\ out' = <<>>
    /\ UNCHANGED cmvars
    /\ UNCHANGED lockvars
    /\ UNCHANGED <<entry, handed, config, current_profile, is_recording,
                   trigger_pressed, recording_counter, tap_mode,
                   trigger_hotkey, audio_recorder, dm_device, orphans, down,
                   kpc, kkey, hist>>

UpdateTapMode ==
    /\ kpc # "dead"
    /\ tpc = "sp_mode"
    /\ tap_mode' = (config.mode = "tap-mode")
    /\ tpc' = "sp_finish"
    /\ out' = <<>>
    /\ UNCHANGED cmvars
    /\ UNCHANGED lockvars
    /\ UNCHANGED <<entry, handed, config, current_profile, is_recording,
                   trigger_pressed, recording_counter, trigger_hotkey,
                   discard_hotkey, audio_recorder, dm_device, orphans, down,
                   kpc, kkey, hist>>

SwitchProfileFinish ==
    /\ kpc # "dead"
    /\ tpc = "sp_finish"
    /\ tpc' = "idle"
    /\ IF SpeechSettingsChanged(sp_old, config)
       THEN /\ speech_processor' = SpeechProcessorFor(config)
            /\ out' = <<"NewSpeechProcessor", "ProfileSwitchCompleted">>
       ELSE /\ speech_processor' = speech_processor
            /\ out' = <<"ProfileSwitchCompleted">>
    /\ file' = cm_config
    /\ UNCHANGED <<cm_config, sp_old>>
    /\ UNCHANGED lockvars
    /\ UNCHANGED <<entry, handed, config, current_profile, is_recording,
                   trigger_pressed, recording_counter, tap_mode,
                   trigger_hotkey, discard_hotkey, audio_recorder, dm_device,
                   orphans, down, kpc, kkey, hist>>

----------------------------------------------------------------------------
(* Tray thread: switch_audio_device *)

\* whisper_to_me/main.py: device_manager.switch_device returns None, so the
\* recorder is never replaced
SwitchAudioDevice(dev, works) ==
    /\ kpc # "dead"
    /\ tpc = "idle"
    /\ entry = "package"
    /\ dm_device' = IF works THEN dev ELSE dm_device
    /\ out' = <<>>
    /\ UNCHANGED cmvars
    /\ UNCHANGED lockvars
    /\ UNCHANGED <<entry, handed, config, current_profile, is_recording,
                   trigger_pressed, recording_counter, tap_mode,
                   trigger_hotkey, discard_hotkey, audio_recorder, orphans,
                   down, kpc, kkey, tpc, hist>>

\* whisper_to_me.py: a new recorder replaces the old one, which is not stopped
ScriptSwitchAudioDevice(dev, works) ==
    /\ kpc # "dead"
    /\ tpc = "idle"
    /\ entry = "script"
    /\ orphans < MaxOrphans
    /\ IF works
       THEN /\ audio_recorder' = NewRecorder(dev)
            /\ dm_device' = dev
            /\ orphans' = IF audio_recorder.is_recording
                          THEN orphans + 1 ELSE orphans
       ELSE UNCHANGED <<audio_recorder, dm_device, orphans>>
    /\ out' = <<>>
    /\ UNCHANGED cmvars
    /\ UNCHANGED lockvars
    /\ UNCHANGED <<entry, handed, config, current_profile, is_recording,
                   trigger_pressed, recording_counter, tap_mode,
                   trigger_hotkey, discard_hotkey, down, kpc, kkey, tpc,
                   hist>>

----------------------------------------------------------------------------
Next ==
    \/ \E key \in RawKeys : OnKeyPress(key)
    \/ \E key \in RawKeys : OnKeyRelease(key)
    \/ \E outcome \in {"text", "nospeech", "error", "typefail"} :
          TranscribeReturn(outcome)
    \/ AudioCallback
    \/ \E name \in ProfileNames : SwitchProfileBegin(name)
    \/ UpdateTriggerHotkey
    \/ UpdateDiscardHotkey
    \/ UpdateTapMode
    \/ SwitchProfileFinish
    \/ \E dev \in Devices, works \in BOOLEAN : SwitchAudioDevice(dev, works)
    \/ \E dev \in Devices, works \in BOOLEAN : ScriptSwitchAudioDevice(dev, works)

Spec == Init /\ [][Next]_vars

----------------------------------------------------------------------------
(***************************************************************************)
(* The configuration manager and the profile switch on their own: profiles *)
(* are created, deleted and applied, the orchestrator switches profile as  *)
(* one step of the tray thread, and the application is started again from  *)
(* the persisted file.  No key is touched.                                 *)
(***************************************************************************)

\* the profiles of the file the manager starts from
RichStore ==
    [tap |-> [mode |-> "tap-mode", trigger_key |-> "<f9>"],
     es |-> [language |-> "es"],
     quick |-> [model |-> "tiny", device |-> "cpu"],
     prompt |-> [initial_prompt |-> "names"]]

\* the base configurations of the file: the model and the last profile vary
Bases ==
    {[BaseConfig EXCEPT !.model = m, !.last_profile = p] :
        m \in {"large-v3", "tiny"}, p \in {DEFAULT_PROFILE, "tap"}}

\* names under which a profile is created
CreateNames == {"new", DEFAULT_PROFILE}

\* names the tray passes to switch_profile
SwitchNames == {DEFAULT_PROFILE, "tap", "es", "quick", "prompt", "new", "ghost"}

\* names passed to delete_profile
DeleteNames == {DEFAULT_PROFILE, "tap", "new", "ghost"}

\* what no operation of this part touches, and the same with the listener
runvars == <<lockvars, entry, handed, is_recording, trigger_pressed, recording_counter,
             audio_recorder, dm_device, orphans, down, kkey, tpc, hist>>

keyvars == <<runvars, kpc>>

\* main(): load_config, apply the last profile, build the orchestrator; the
\* flags of the command line repeat the values resolved from the file
StartedFrom(loaded) ==
    LET last == loaded.cfg.last_profile
        cfg == IF last # DEFAULT_PROFILE THEN ApplyProfileOver(loaded, last)
               ELSE loaded.cfg
    IN  [config |-> cfg,
         current_profile |-> IF last # DEFAULT_PROFILE
                             THEN CurrentAfterApply(loaded, last, last)
                             ELSE last]

ConfigInit ==
    /\ entry = "package"
    /\ cm_config \in {[cfg |-> b, profiles |-> RichStore] : b \in Bases}
    /\ file = cm_config
    /\ current_profile = StartedFrom(cm_config).current_profile
    /\ config = StartedFrom(cm_config).config
    /\ is_recording = FALSE
    /\ trigger_pressed = FALSE
    /\ recording_counter = 0
    /\ tap_mode = (config.mode = "tap-mode")
    /\ trigger_hotkey = TriggerHotKeyFor(config)
    /\ discard_hotkey = DiscardHotKeyFor(config)
    /\ audio_recorder = NewRecorder("dev0")
    /\ dm_device = "dev0"
    /\ orphans = 0
    /\ down = {}
    /\ kpc = "idle"
    /\ kkey = "none"
    /\ tpc = "idle"
    /\ out = <<>>
    /\ hist = <<>>
    /\ speech_processor = SpeechProcessorFor(config)
    /\ sp_old = SpeechProcessorFor(config)
    /\ handed = NoSession
    /\ lockfs = NoLockFile
    /\ procs = [p \in Procs |-> NotStarted]

\* ConfigManager.create_profile(name, config), save_config included
CreateProfile(name, cfg) ==
    /\ kpc = "idle"
    /\ cm_config' = [cm_config EXCEPT !.profiles =
                        (name :> CreateProfileData(cfg, DefaultConfig)) @@ @]
    /\ file' = cm_config'
    /\ out' = <<"ReturnTrue">>
    /\ UNCHANGED <<config, current_profile, tap_mode, trigger_hotkey,
                   discard_hotkey, speech_processor, sp_old>>
    /\ UNCHANGED keyvars

\* ConfigManager.delete_profile(name)
DeleteProfile(name) ==
    /\ kpc = "idle"
    /\ IF name = DEFAULT_PROFILE
       THEN /\ out' = <<"ReturnFalse">>
            /\ UNCHANGED <<cm_config, file, current_profile>>
       ELSE IF name \in DOMAIN cm_config.profiles
       THEN /\ cm_config' =
                 [cfg |-> IF current_profile = name
                          THEN [cm_config.cfg EXCEPT
                                   !.last_profile = DEFAULT_PROFILE]
                          ELSE cm_config.cfg,
                  profiles |-> [n \in DOMAIN cm_config.profiles \ {name}
                                  |-> cm_config.profiles[n]]]
            /\ current_profile' = IF current_profile = name
                                  THEN DEFAULT_PROFILE ELSE current_profile
            /\ file' = cm_config'
            /\ out' = <<"ReturnTrue">>
       ELSE /\ out' = <<"ReturnFalse">>
            /\ UNCHANGED <<cm_config, file, current_profile>>
    /\ UNCHANGED <<config, tap_mode, trigger_hotkey, discard_hotkey,
                   speech_processor, sp_old>>
    /\ UNCHANGED keyvars

\* ConfigManager.delete_profile(name) on the manager cm whose current
\* profile is cur: the manager, the current profile and the result it leaves
DeletedFrom(cm, cur, name) ==
    IF name # DEFAULT_PROFILE /\ name \in DOMAIN cm.profiles
    THEN [manager |->
              [cfg |-> IF cur = name
                       THEN [cm.cfg EXCEPT !.last_profile = DEFAULT_PROFILE]
                       ELSE cm.cfg,
               profiles |-> [n \in DOMAIN cm.profiles \ {name}
                               |-> cm.profiles[n]]],
          current_profile |-> IF cur = name THEN DEFAULT_PROFILE ELSE cur,
          success |-> TRUE]
    ELSE [manager |-> cm, current_profile |-> cur, success |-> FALSE]

\* a ProfileManager.delete_profile that does not reload after the deletion
ProfileManagerDeleteKeepsConfig(name) ==
    LET d == DeletedFrom(cm_config, current_profile, name)
    IN  /\ kpc = "idle"
        /\ cm_config' = d.manager
        /\ current_profile' = d.current_profile
        /\ file' = IF d.success THEN d.manager ELSE file
        /\ out' = IF d.success THEN <<"ReturnTrue">> ELSE <<"ReturnFalse">>
        /\ UNCHANGED <<config, tap_mode, trigger_hotkey, discard_hotkey,
                       speech_processor, sp_old>>
        /\ UNCHANGED keyvars

\* ProfileManager.delete_profile(name): the manager deletes and saves; when
\* the current profile is then "default" the configuration is loaded from
\* the file again and passed to on_config_changed
ProfileManagerDelete(name) ==
    LET d == DeletedFrom(cm_config, current_profile, name)
        reload == d.success /\ d.current_profile = DEFAULT_PROFILE
    IN  /\ kpc = "idle"
        /\ cm_config' = d.manager
        /\ file' = IF d.success THEN d.manager ELSE file
        /\ current_profile' = IF reload THEN d.manager.cfg.last_profile
                               ELSE d.current_profile
        /\ config' = IF reload THEN d.manager.cfg ELSE config
        /\ out' = IF reload THEN <<"ReturnTrue", "on_config_changed">>
                  ELSE IF d.success THEN <<"ReturnTrue">>
                  ELSE <<"ReturnFalse">>
        /\ UNCHANGED <<tap_mode, trigger_hotkey, discard_hotkey,
                       speech_processor, sp_old>>
        /\ UNCHANGED keyvars

\* _update_from_config raises: HotKey.parse rejects one of the key strings
KeysRejected(cfg) ==
    ~Parseable(cfg.trigger_key) \/ ~Parseable(cfg.discard_key)

\* WhisperToMe.switch_profile(name) run to its end by the tray thread; when
\* HotKey.parse raises, the configuration has been replaced and nothing else
SwitchProfile(name) ==
    LET new_config == ApplyProfileOver(cm_config, name)
        changed == SpeechSettingsChanged(SpeechProcessorFor(config), new_config)
    IN  /\ kpc = "idle"
        /\ current_profile' =
               CurrentAfterApply(cm_config, current_profile, name)
        /\ config' = new_config
        /\ IF KeysRejected(new_config)
           THEN /\ out' = <<"profile_switched", name>>
                          \o ApplyWarnings(cm_config, name)
                          \o <<"ValueError">>
                /\ UNCHANGED <<trigger_hotkey, discard_hotkey, tap_mode,
                               speech_processor, file>>
           ELSE /\ trigger_hotkey' = TriggerHotKeyFor(new_config)
                /\ discard_hotkey' = DiscardHotKeyFor(new_config)
                /\ tap_mode' = (new_config.mode = "tap-mode")
                /\ speech_processor' =
                       IF changed THEN SpeechProcessorFor(new_config)
                       ELSE speech_processor
                /\ out' = <<"profile_switched", name>>
                          \o ApplyWarnings(cm_config, name)
                          \o (IF changed THEN <<"NewSpeechProcessor">>
                              ELSE <<>>)
                          \o <<"ProfileSwitchCompleted">>
                /\ file' = cm_config
        /\ UNCHANGED <<cm_config, sp_old>>
        /\ UNCHANGED keyvars

\* a new process without --profile, started from the persisted file with
\* flags that repeat its values
Restart ==
    LET started == StartedFrom(file)
    IN  /\ cm_config' = file
        /\ current_profile' = started.current_profile
        /\ config' = started.config
        /\ trigger_hotkey' = TriggerHotKeyFor(started.config)
        /\ discard_hotkey' = DiscardHotKeyFor(started.config)
        /\ tap_mode' = (started.config.mode = "tap-mode")
        /\ speech_processor' = SpeechProcessorFor(started.config)
        /\ kpc' = "idle"
        /\ out' = <<"Started">>
        /\ UNCHANGED <<file, sp_old>>
        /\ UNCHANGED runvars

ConfigNext ==
    \/ \E name \in CreateNames : CreateProfile(name, config)
    \/ \E name \in DeleteNames : DeleteProfile(name)
    \/ \E name \in SwitchNames : SwitchProfile(name)
    \/ Restart
    \/ \E name \in DeleteNames : ProfileManagerDelete(name)

ConfigSpec == ConfigInit /\ [][ConfigNext]_vars

----------------------------------------------------------------------------
(***************************************************************************)
(* Starting the application: main() resolves the configuration from the    *)
(* file, the last or the requested profile and the command line, validates *)
(* the keys and builds the orchestrator; the tray then switches profile.   *)
(***************************************************************************)

\* the file this part starts from: a profile with a malformed trigger key,
\* one with a mode that is no mode and one with a field the schema no longer
\* has are stored beside the others
StartStore ==
    [bad |-> [trigger_key |-> "<f9"], hold |-> [mode |-> "hold"],
     legacy |-> [language |-> "es", beam_size |-> "5"]] @@ RichStore

\* names the tray passes to switch_profile in this part
StartSwitchNames == {DEFAULT_PROFILE, "tap", "bad", "hold", "legacy"}

\* a value --model supplies on the command line; no file holds it
CliModel == "base"

\* values of --profile and --audio-device-name ("none": the flag is not
\* given)
StartProfiles == {"none", "hold"}

StartDevices == {"none", "dev1"}

\* values of --model and --key: the parser's default, which args holds when
\* the flag is not given, and values the user supplies
StartModels == {"large-v3", CliModel}

StartKeys == {"<scroll_lock>", "<f9"}

\* the devices whose input stream can be opened when the process starts
OpenableSets == SUBSET {"dev1", "default"}

\* main() with --profile p, --model m, --key k and --audio-device-name d and
\* no other flag: the configuration is loaded, the profile applied, and the
\* values of args (the parser's defaults where no flag is given) written
\* into the resolved configuration, which is the base itself unless a stored
\* profile was applied
MainResolved(loaded, p, m, k, d) ==
    LET last == loaded.cfg.last_profile
        use == IF p # "none" THEN p ELSE last
        applied == use # DEFAULT_PROFILE
        copied == applied /\ use \in DOMAIN loaded.profiles
        resolved == IF applied THEN ApplyProfileOver(loaded, use)
                    ELSE loaded.cfg
        config_ == [resolved EXCEPT
                      !.model = m,
                      !.device = "cuda",
                      !.language = "auto",
                      !.trailing_space = FALSE,
                      !.trigger_key = k,
                      !.discard_key = "<esc>",
                      !.audio_device = IF d # "none" THEN d ELSE @]
    IN  [config |-> config_,
         manager |-> IF copied THEN loaded
                     ELSE [loaded EXCEPT !.cfg = config_],
         current_profile |-> IF applied
                             THEN CurrentAfterApply(loaded, last, use)
                             ELSE last]

\* a device initialisation that keeps the preference when it falls back
InitAudioRecorderKeepsPreference(device_config, opens) ==
    IF device_config # "none" /\ device_config \in opens
    THEN [dm_device |-> device_config, rec |-> NewRecorder(device_config),
          log |-> <<>>, raised |-> FALSE]
    ELSE IF "default" \in opens
    THEN [dm_device |-> device_config, rec |-> NewRecorder("default"),
          log |-> IF device_config # "none" THEN <<"FallingBack">> ELSE <<>>,
          raised |-> FALSE]
    ELSE [dm_device |-> device_config, rec |-> NewRecorder("default"),
          log |-> IF device_config # "none" THEN <<"FallingBack">> ELSE <<>>,
          raised |-> TRUE]

\* WhisperToMe.__init__: the device manager and the recorder; when the
\* configured device does not open the preference is dropped and the default
\* device opened, and when that does not open either the error is raised
InitAudioRecorder(device_config, opens) ==
    IF device_config # "none" /\ device_config \in opens
    THEN [dm_device |-> device_config, rec |-> NewRecorder(device_config),
          log |-> <<>>, raised |-> FALSE]
    ELSE IF "default" \in opens
    THEN [dm_device |-> "none", rec |-> NewRecorder("default"),
          log |-> IF device_config # "none" THEN <<"FallingBack">> ELSE <<>>,
          raised |-> FALSE]
    ELSE [dm_device |-> "none", rec |-> NewRecorder("default"),
          log |-> IF device_config # "none" THEN <<"FallingBack">> ELSE <<>>,
          raised |-> TRUE]

\* a new process started from the persisted file: main() and the
\* construction of the orchestrator
StartWithArgs(p, m, k, d, opens) ==
    LET r == MainResolved(file, p, m, k, d)
        a == InitAudioRecorder(r.config.audio_device, opens)
    IN  /\ cm_config' = r.manager
        /\ current_profile' = r.current_profile
        /\ config' = r.config
        /\ IF KeysRejected(r.config)
           THEN /\ kpc' = "exited"
                /\ out' = <<"InvalidKey">>
                /\ UNCHANGED <<trigger_hotkey, discard_hotkey, tap_mode,
                               speech_processor, dm_device, audio_recorder>>
           ELSE IF a.raised
           THEN /\ kpc' = "exited"
                /\ dm_device' = a.dm_device
                /\ out' = a.log \o <<"FatalAudio">>
                /\ UNCHANGED <<trigger_hotkey, discard_hotkey, tap_mode,
                               speech_processor, audio_recorder>>
           ELSE /\ kpc' = "idle"
                /\ trigger_hotkey' = TriggerHotKeyFor(r.config)
                /\ discard_hotkey' = DiscardHotKeyFor(r.config)
                /\ tap_mode' = (r.config.mode = "tap-mode")
                /\ dm_device' = a.dm_device
                /\ audio_recorder' = a.rec
                /\ speech_processor' = SpeechProcessorFor(r.config)
                /\ out' = a.log \o <<"Started">>
        /\ UNCHANGED <<file, sp_old>>
        /\ UNCHANGED lockvars
        /\ UNCHANGED <<entry, handed, is_recording, trigger_pressed,
                       recording_counter, orphans, down, kkey, tpc, hist>>

StartInit ==
    /\ entry = "package"
    /\ cm_config = [cfg |-> BaseConfig, profiles |-> StartStore]
    /\ file = cm_config
    /\ current_profile = DEFAULT_PROFILE
    /\ config = cm_config.cfg
    /\ is_recording = FALSE
    /\ trigger_pressed = FALSE
    /\ recording_counter = 0
    /\ tap_mode = FALSE
    /\ trigger_hotkey = TriggerHotKeyFor(config)
    /\ discard_hotkey = DiscardHotKeyFor(config)
    /\ audio_recorder = NewRecorder("default")
    /\ dm_device = "none"
    /\ orphans = 0
    /\ down = {}
    /\ kpc = "idle"
    /\ kkey = "none"
    /\ tpc = "idle"
    /\ out = <<>>
    /\ hist = <<>>
    /\ speech_processor = SpeechProcessorFor(config)
    /\ sp_old = SpeechProcessorFor(config)
    /\ handed = NoSession
    /\ lockfs = NoLockFile
    /\ procs = [p \in Procs |-> NotStarted]

StartNext ==
    \/ \E p \in StartProfiles, m \in StartModels, k \in StartKeys,
          d \in StartDevices, opens \in OpenableSets :
             StartWithArgs(p, m, k, d, opens)
    \/ \E name \in StartSwitchNames : SwitchProfile(name)

StartSpec == StartInit /\ [][StartNext]_vars

----------------------------------------------------------------------------
(***************************************************************************)
(* The single-instance lock: processes run `with SingleInstance():` around *)
(* the application, system call by system call.  flock locks belong to the *)
(* open file, that is to the inode; the path names an inode or nothing.    *)
(***************************************************************************)

appvars == <<entry, config, current_profile, is_recording, trigger_pressed,
             recording_counter, tap_mode, trigger_hotkey, discard_hotkey,
             audio_recorder, dm_device, orphans, down, kpc, kkey, tpc, hist,
             cm_config, file, speech_processor, sp_old, handed>>

\* acquire: open(lockfile_path, "w") opens the file the path names or
\* creates it
LockOpen(p) ==
    /\ procs[p].pc \in {"off", "exit1"}
    /\ IF lockfs.path # 0
       THEN /\ procs' = [procs EXCEPT ![p] = [pc |-> "opened",
                                              fd |-> lockfs.path]]
            /\ UNCHANGED lockfs
       ELSE /\ lockfs.made < MaxInodes
            /\ lockfs' = [lockfs EXCEPT !.path = lockfs.made + 1,
                                        !.made = lockfs.made + 1]
            /\ procs' = [procs EXCEPT ![p] = [pc |-> "opened",
                                              fd |-> lockfs.made + 1]]
    /\ out' = <<>>
    /\ UNCHANGED appvars

\* acquire: flock(LOCK_EX | LOCK_NB); on success __enter__ returns and the
\* application is built and run, on OSError the file is closed and __enter__
\* calls sys.exit(1)
LockFlock(p) ==
    /\ procs[p].pc = "opened"
    /\ IF lockfs.holder[procs[p].fd] = 0
       THEN /\ lockfs' = [lockfs EXCEPT !.holder[procs[p].fd] = p]
            /\ procs' = [procs EXCEPT ![p].pc = "running"]
            /\ out' = <<"Acquired", p>>
       ELSE /\ procs' = [procs EXCEPT ![p] = [pc |-> "exit1", fd |-> 0]]
            /\ out' = <<"AlreadyRunning", p>>
            /\ UNCHANGED lockfs
    /\ UNCHANGED appvars

\* release, called by __exit__ when the application ends: flock(LOCK_UN)
LockUnlock(p) ==
    /\ procs[p].pc = "running"
    /\ lockfs' = [lockfs EXCEPT !.holder[procs[p].fd] = 0]
    /\ procs' = [procs EXCEPT ![p].pc = "unlocked"]
    /\ out' = <<>>
    /\ UNCHANGED appvars

\* release: lockfile.close()
LockClose(p) ==
    /\ procs[p].pc = "unlocked"
    /\ procs' = [procs EXCEPT ![p] = [pc |-> "closed", fd |-> 0]]
    /\ out' = <<>>
    /\ UNCHANGED <<lockfs, appvars>>

\* release: lockfile_path.unlink() removes whatever file the path names; the
\* process then ends
LockUnlink(p) ==
    /\ procs[p].pc = "closed"
    /\ lockfs' = [lockfs EXCEPT !.path = 0]
    /\ procs' = [procs EXCEPT ![p].pc = "off"]
    /\ out' = <<>>
    /\ UNCHANGED appvars

LockNext ==
    \/ \E p \in Procs : LockOpen(p)
    \/ \E p \in Procs : LockFlock(p)
    \/ \E p \in Procs : LockUnlock(p)
    \/ \E p \in Procs : LockClose(p)
    \/ \E p \in Procs : LockUnlink(p)

LockSpec == StartInit /\ [][LockNext]_vars

----------------------------------------------------------------------------
(* Shared vocabulary of the properties *)

Last(seq) == seq[Len(seq)]

Idle == ~is_recording

Recording == is_recording

\* recorders whose stream callback is appending to a buffer
Capturing == (IF audio_recorder.is_recording THEN 1 ELSE 0) + orphans

KeyPressStep == \E key \in RawKeys : OnKeyPress(key)

KeyReleaseStep == \E key \in RawKeys : OnKeyRelease(key)

\* all member keys of a canonical key set are physically held
Held(keys, raw) == \A m \in keys : \E r \in raw : Canonical(r) = m

----------------------------------------------------------------------------
\* C1: in every reachable state at most one recording session is active:
\* there is never more than one audio recorder capturing into a session
\* buffer at the same time.
C1_AtMostOneRecorderCapturing == Capturing <= 1

Range(seq) == {seq[i] : i \in DOMAIN seq}

Count(seq, e) == Cardinality({i \in DOMAIN seq : seq[i] = e})

\* the raw key goes down and with it every member of keys is held
Completes(keys, key) ==
    /\ Canonical(key) \in keys
    /\ key \notin down
    /\ Held(keys \ {Canonical(key)}, down)

\* trigger tracker, discard tracker and mode all come from one configuration
BindingConsistent ==
    \E name \in ProfileNames :
        LET c == ApplyProfile(name)
        IN  /\ trigger_hotkey.keys = TriggerHotKeyFor(c).keys
            /\ trigger_hotkey.cb = TriggerHotKeyFor(c).cb
            /\ discard_hotkey.keys = DiscardHotKeyFor(c).keys
            /\ discard_hotkey.cb = DiscardHotKeyFor(c).cb
            /\ tap_mode = (c.mode = "tap-mode")

----------------------------------------------------------------------------
\* C2: in push-to-talk mode, while Recording with TriggerSatisfied, the
\* release of any key (member of the trigger combination or not) emits
\* StopAndTranscribe exactly once, returns the machine to Idle and clears
\* TriggerSatisfied.
C2_ReleaseStopsPushToTalk ==
    [][(KeyReleaseStep /\ ~tap_mode /\ Recording /\ trigger_pressed)
         => /\ Count(out', "StopAndTranscribe") = 1
            /\ ~is_recording'
            /\ ~trigger_pressed']_vars

\* a release of a key outside the trigger combination has just stopped a
\* push-to-talk recording: every trigger key is still held
C2_Witness ==
    /\ ~tap_mode
    /\ trigger_hotkey.cb = "press"
    /\ trigger_hotkey.keys = {"ctrl", "f9"}
    /\ Held(trigger_hotkey.keys, down)
    /\ Count(out, "StopAndTranscribe") = 1
    /\ Idle
    /\ ~trigger_pressed

----------------------------------------------------------------------------
\* C3: in either mode, while Idle, StartRecording is emitted exactly when the
\* trigger combination becomes fully satisfied (the last missing member key
\* goes down while all other member keys are held); in push-to-talk the
\* transition also sets TriggerSatisfied.
C3_StartExactlyWhenTriggerCompletes ==
    [][\A key \in RawKeys :
         (OnKeyPress(key) /\ Idle)
           => /\ ("StartRecording" \in Range(out'))
                   <=> Completes(trigger_hotkey.keys, key)
              /\ ("StartRecording" \in Range(out') /\ ~tap_mode)
                   => trigger_pressed']_vars

----------------------------------------------------------------------------
\* C4: in tap-mode the trigger is a toggle: when the trigger combination
\* becomes fully satisfied while Recording, StopAndTranscribe is emitted and
\* the machine moves to Idle.
C4_TapTriggerToggles ==
    [][\A key \in RawKeys :
         (OnKeyPress(key) /\ tap_mode /\ Recording
            /\ Completes(trigger_hotkey.keys, key))
           => /\ "StopAndTranscribe" \in Range(out')
              /\ ~is_recording']_vars

----------------------------------------------------------------------------
\* C5: mode exclusivity: in push-to-talk no key press triggers a discard, and
\* in tap-mode no key release stops the recording.
C5_ModeExclusivity ==
    [][/\ (KeyPressStep /\ ~tap_mode)
            => "DiscardRecording" \notin Range(out')
       /\ (KeyReleaseStep /\ tap_mode /\ Recording)
            => (is_recording' /\ "StopAndTranscribe" \notin Range(out'))]_vars

----------------------------------------------------------------------------
\* C6: the discard key has an effect only while Recording: pressed while
\* Recording (tap-mode) it stops capture and drops the buffer without invoking
\* the Transcriber or typing, and moves the machine to Idle; pressed while
\* Idle it emits no event and changes no state.
C6_DiscardOnlyWhileRecording ==
    [][\A key \in RawKeys :
         (OnKeyPress(key) /\ tap_mode /\ key \notin down
            /\ Canonical(key) \in Parse(config.discard_key))
           => IF Recording
              THEN /\ out' = <<"DiscardRecording">>
                   /\ ~is_recording'
                   /\ Capturing' = 0
                   /\ audio_recorder'.audio_data = 0
                   /\ kpc' = "idle"
              ELSE /\ out' = <<>>
                   /\ UNCHANGED <<is_recording, trigger_pressed, audio_recorder,
                                  recording_counter, kpc>>]_vars

----------------------------------------------------------------------------
\* C7: tap-mode with trigger <f9> and discard <esc>: a press of f9 while Idle
\* emits StartRecording, a press of esc while Recording emits
\* DiscardRecording and leaves the machine Idle, and the next press of f9
\* emits StartRecording again.
ScenarioBinding ==
    /\ tap_mode
    /\ trigger_hotkey.cb = "tap"
    /\ trigger_hotkey.keys = {"f9"}
    /\ discard_hotkey.cb = "discard"
    /\ discard_hotkey.keys = {"esc"}

C7_DiscardThenRestart ==
    [][/\ (KeyPressStep /\ "DiscardRecording" \in Range(out'))
            => ~is_recording'
       /\ (OnKeyPress("esc") /\ "esc" \notin down /\ ScenarioBinding
             /\ Recording)
            => (out' = <<"DiscardRecording">> /\ ~is_recording')
       /\ (OnKeyPress("f9") /\ "f9" \notin down /\ ScenarioBinding /\ Idle)
            => (out' = <<"StartRecording">> /\ is_recording')]_vars

\* the recording that follows a discarded one has started
C7_Witness ==
    /\ ScenarioBinding
    /\ hist = <<"StartRecording", "DiscardRecording", "StartRecording">>
    /\ out = <<"StartRecording">>
    /\ Recording

----------------------------------------------------------------------------
\* C8: idempotent start: when the push-to-talk start callback fires while a
\* session is already active, there is still exactly that one session, the
\* buffer captured so far is neither reset nor duplicated, and no
\* StartRecording is raised.
C8_SecondStartIsNoOp ==
    [][\A key \in RawKeys :
         (OnKeyPress(key) /\ Recording /\ trigger_hotkey.cb = "press"
            /\ HotKeyActivates(trigger_hotkey, Canonical(key)))
           => /\ is_recording'
              /\ audio_recorder' = audio_recorder
              /\ Capturing' = Capturing
              /\ "StartRecording" \notin Range(out')
              /\ kpc' = "idle"]_vars

\* the start callback has just been ignored with audio already in the buffer
C8_Witness ==
    /\ out = <<"StartIgnored">>
    /\ Recording
    /\ audio_recorder.is_recording
    /\ audio_recorder.audio_data > 0

----------------------------------------------------------------------------
\* C9: no key event is processed against a half-updated binding: trigger
\* tracker, discard tracker and mode are replaced in one step.
C9_KeyEventsSeeConsistentBinding ==
    [][(KeyPressStep \/ KeyReleaseStep) => BindingConsistent]_vars

----------------------------------------------------------------------------
\* C10 as stated: every StopAndTranscribe increments the completed-session
\* counter by exactly one whatever its outcome, the empty buffer included.
C10_EveryStopIncrements ==
    [][("StopAndTranscribe" \in Range(out') /\ kpc' = "idle")
         => recording_counter' = recording_counter + 1]_vars

\* C10 as amended: a StopAndTranscribe whose buffer is not empty increments
\* the counter by exactly one when the transcription returns, whether text is
\* typed, no speech is detected or the engine failed; one whose buffer is
\* empty leaves the counter unchanged; nothing else changes the counter.
C10_NonEmptyStopIncrements ==
    [][/\ (kpc = "transcribing" /\ kpc' = "idle")
            => recording_counter' = recording_counter + 1
       /\ ("StopAndTranscribe" \in Range(out'))
            => recording_counter' = recording_counter
       /\ (recording_counter' # recording_counter)
            => (kpc = "transcribing" /\ kpc' = "idle")]_vars

\* a session whose transcription found no speech has been counted
C10_Witness ==
    /\ out = <<"NoSpeech">>
    /\ recording_counter = 1
    /\ kpc = "idle"
----------------------------------------------------------------------------
\* C11: when StopAndTranscribe finds that the recorder returned no buffer or
\* an empty one, the orchestrator reports that no audio was recorded and is
\* Idle again without invoking the Transcriber and without typing anything.
C11_EmptyBufferSkipsTranscriber ==
    [][((KeyPressStep \/ KeyReleaseStep)
          /\ "StopAndTranscribe" \in Range(out')
          /\ RecStopAudio(audio_recorder) = 0)
         => /\ "NoAudio" \in Range(out')
            /\ "Type" \notin Range(out')
            /\ kpc' = "idle"
            /\ ~is_recording'
            /\ recording_counter' = recording_counter]_vars

\* a stop has just reported that no audio was recorded
C11_Witness ==
    /\ out = <<"StopAndTranscribe", "NoAudio">>
    /\ Idle
    /\ kpc = "idle"
----------------------------------------------------------------------------
(* Properties of the configuration manager and of the profile switch *)

\* configurations a caller may hold: every field varies over two values or more
ValidConfigs ==
    [language : {"auto", "es"}, model : {"large-v3", "tiny"},
     device : {"cuda", "cpu"}, initial_prompt : {"", "names"},
     last_profile : {DEFAULT_PROFILE},
     mode : {"push-to-talk", "tap-mode"},
     trigger_key : {"<scroll_lock>", "<ctrl>+<f9>", "<f9>"},
     discard_key : {"<esc>"}, trailing_space : BOOLEAN,
     audio_device : {"none"}]

SameExceptLastProfile(a, b) ==
    \A f \in DOMAIN a \ {"last_profile"} : a[f] = b[f]

\* create_profile(name, C) followed by apply_profile(name) on the manager cm
RoundTrip(cm, C) ==
    ApplyProfileOver(
        [cm EXCEPT !.profiles = ("new" :> CreateProfileData(C, DefaultConfig)) @@ @],
        "new")

\* the name is neither "default" nor stored
UnknownProfile(name) ==
    name # DEFAULT_PROFILE /\ name \notin DOMAIN cm_config.profiles

\* the bindings and the mode are those of the configuration cfg
BoundTo(cfg) ==
    /\ trigger_hotkey.keys = Parse(cfg.trigger_key)
    /\ trigger_hotkey.cb = TriggerHotKeyFor(cfg).cb
    /\ discard_hotkey.keys = DiscardHotKeyFor(cfg).keys
    /\ discard_hotkey.cb = DiscardHotKeyFor(cfg).cb
    /\ tap_mode = (cfg.mode = "tap-mode")

----------------------------------------------------------------------------
\* C12: profile round trip: for any valid configuration C, creating a profile
\* from C and immediately applying that profile over the same base gives C
\* back in every field except last_profile.
C12_ProfileRoundTrip ==
    \A C \in ValidConfigs : SameExceptLastProfile(RoundTrip(cm_config, C), C)

----------------------------------------------------------------------------
\* C13: for a profile name present in the store, apply_profile returns a
\* clone of the base in which every field of the stored sparse dict has the
\* stored value and every other field the base value, with last_profile and
\* the current profile both set to that name; the base is not modified.
C13_ApplyStoredProfile ==
    [][\A name \in SwitchNames :
         (SwitchProfile(name) /\ name \in DOMAIN cm_config.profiles)
           => /\ \A f \in DOMAIN config' \ {"last_profile"} :
                    config'[f] = IF f \in DOMAIN cm_config.profiles[name]
                                 THEN cm_config.profiles[name][f]
                                 ELSE cm_config.cfg[f]
              /\ config'.last_profile = name
              /\ current_profile' = name
              /\ cm_config' = cm_config]_vars

----------------------------------------------------------------------------
\* C14: apply_profile with a name absent from the store returns the base
\* configuration unchanged, and afterwards the current profile is reported
\* as "default".
C14_UnknownNameFallsBackToDefault ==
    [][\A name \in SwitchNames :
         (SwitchProfile(name) /\ UnknownProfile(name))
           => /\ config' = cm_config.cfg
              /\ cm_config' = cm_config
              /\ current_profile' = DEFAULT_PROFILE]_vars

----------------------------------------------------------------------------
\* C15: a profile switch requested for an unknown name is a no-op: active
\* configuration, hotkey bindings, Transcriber, current profile and the
\* persisted file are all left as they were.
C15_UnknownSwitchIsNoOp ==
    [][\A name \in SwitchNames :
         (SwitchProfile(name) /\ UnknownProfile(name))
           => /\ UNCHANGED <<config, trigger_hotkey, discard_hotkey, tap_mode,
                             speech_processor, current_profile, file>>
              /\ "NewSpeechProcessor" \notin Range(out')]_vars

----------------------------------------------------------------------------
\* C16: default immutability: delete_profile("default") returns failure and
\* mutates neither the profile store nor the current profile nor the file;
\* apply_profile("default") returns the base configuration unchanged and
\* sets the current profile to "default", whatever profiles exist.
C16_DefaultImmutable ==
    [][/\ DeleteProfile(DEFAULT_PROFILE)
            => /\ out' = <<"ReturnFalse">>
               /\ UNCHANGED <<cm_config, current_profile, file>>
       /\ SwitchProfile(DEFAULT_PROFILE)
            => /\ config' = cm_config.cfg
               /\ cm_config' = cm_config
               /\ current_profile' = DEFAULT_PROFILE]_vars

\* "default" has just been applied while the store holds an entry of that
\* name whose mode differs from the base's
C16_Witness ==
    /\ Len(out) >= 2
    /\ out[1] = "profile_switched"
    /\ out[2] = DEFAULT_PROFILE
    /\ DEFAULT_PROFILE \in DOMAIN cm_config.profiles
    /\ "mode" \in DOMAIN cm_config.profiles[DEFAULT_PROFILE]
    /\ config = cm_config.cfg
    /\ config.mode = "push-to-talk"
    /\ current_profile = DEFAULT_PROFILE

----------------------------------------------------------------------------
\* C17: the name "default" is reserved: no sequence of create_profile,
\* delete_profile and load operations leaves an explicit entry named
\* "default" in the profile store.
C17_DefaultNeverStored ==
    /\ DEFAULT_PROFILE \notin DOMAIN cm_config.profiles
    /\ DEFAULT_PROFILE \notin DOMAIN file.profiles

----------------------------------------------------------------------------
\* C18: on a profile switch the Transcriber is recreated if and only if at
\* least one of language, model, device or initial prompt differs between the
\* old and the new resolved configuration.
C18_TranscriberRecreatedIffChanged ==
    [][\A name \in SwitchNames :
         SwitchProfile(name)
           => ("NewSpeechProcessor" \in Range(out'))
                <=> \/ config.language # config'.language
                    \/ config.model # config'.model
                    \/ config.device # config'.device
                    \/ config.initial_prompt # config'.initial_prompt]_vars

----------------------------------------------------------------------------
----------------------------------------------------------------------------
\* C20: a profile switch is persisted: after a switch to profile P has
\* completed, the persisted file records P as the last active profile, so
\* that a fresh start without --profile reports P as the current profile.
C20_SwitchIsPersisted ==
    [][\A name \in SwitchNames :
         (SwitchProfile(name) /\ ~UnknownProfile(name))
           => /\ file'.cfg.last_profile = name
              /\ StartedFrom(file').current_profile = name]_vars


----------------------------------------------------------------------------
\* C21: command-line overrides apply to the current run only: a save of the
\* configuration made later in the run by a profile switch writes no value
\* supplied on the command line into the persisted base configuration.
C21_CliOverridesNotPersisted ==
    [][(/\ \E name \in StartSwitchNames : SwitchProfile(name)
        /\ file.cfg.model # CliModel)
          => file'.cfg.model # CliModel]_vars

----------------------------------------------------------------------------
\* the ways speech_processor.transcribe and the typing that follows can end
Outcomes == {"text", "nospeech", "error", "typefail"}

\* C22: no failure that arises while a recording attempt is handled leaves
\* the key-event callback: whatever the outcome of the attempt, the listener
\* goes on processing events and the machine is Idle.
C22_FailuresStayInsideCallback ==
    [][\A outcome \in Outcomes :
          TranscribeReturn(outcome) => (kpc' = "idle" /\ ~is_recording')]_vars

----------------------------------------------------------------------------
\* C23: when the transcription engine throws during transcribe the attempt
\* is treated as no speech detected: nothing is typed, the session counter
\* is incremented, the machine is Idle and the listener alive, and a key
\* press that then activates the trigger starts a new recording.
C23_EngineErrorIsNoSpeech ==
    [][/\ TranscribeReturn("error")
            => /\ "Type" \notin Range(out')
               /\ "NoSpeech" \in Range(out')
               /\ recording_counter' = recording_counter + 1
               /\ ~is_recording'
               /\ kpc' = "idle"
       /\ \A key \in RawKeys :
            (/\ OnKeyPress(key)
             /\ Idle
             /\ HotKeyActivates(trigger_hotkey, Canonical(key)))
              => "StartRecording" \in Range(out')]_vars

\* the engine has just failed on the first session
C23_Witness ==
    /\ out = <<"TranscriptionError", "NoSpeech">>
    /\ recording_counter = 1
    /\ ~is_recording
    /\ kpc = "idle"

----------------------------------------------------------------------------
\* C24: the key-event callback does not block on model inference: the
\* listener thread is never inside the transcriber, so that key events
\* arriving during a transcription are handled before it finishes.
C24_CallbackNeverInsideInference == kpc # "transcribing"

----------------------------------------------------------------------------
\* C25: transcription results are typed in the order in which the captures
\* completed: a capture is handed to the transcriber only when no earlier
\* session is still inside it, and text is typed only by the step that
\* completes the session inside it, so no session overtakes another.
C25_TypedInCaptureOrder ==
    [][/\ ("StopAndTranscribe" \in Range(out') /\ kpc' = "transcribing")
            => (kpc = "idle" /\ handed = NoSession)
       /\ ("Type" \in Range(out'))
            => (kpc = "transcribing" /\ kpc' = "idle"
                /\ handed # NoSession /\ handed' = NoSession)
       /\ ("StartRecording" \in Range(out')) => handed = NoSession]_vars

\* the text of the second session has just been typed, after the first
\* session was completed
C25_Witness ==
    /\ "Type" \in Range(out)
    /\ recording_counter = 2
    /\ hist = <<"StopAndTranscribe", "StartRecording", "StopAndTranscribe">>
    /\ handed = NoSession

----------------------------------------------------------------------------
\* C26: a profile switch never affects a session already handed to the
\* transcriber: the text of the session is typed with the trailing-space
\* setting that was in force when its capture stopped.
C26_SessionKeepsItsConfiguration ==
    [][TranscribeReturn("text")
          => (("AddSpace" \in Range(out')) <=> handed[1].trailing_space)]_vars

----------------------------------------------------------------------------
\* the allowed values of the configuration (ConfigValidator)
VALID_MODELS == {"tiny", "base", "small", "medium", "large-v3"}

VALID_DEVICES == {"cpu", "cuda"}

VALID_RECORDING_MODES == {"push-to-talk", "tap-mode"}

\* some process has just been started
Started ==
    \E p \in StartProfiles, m \in StartModels, k \in StartKeys,
       d \in StartDevices, opens \in OpenableSets :
          StartWithArgs(p, m, k, d, opens)

\* C27: the hotkey state machine never receives an unparseable binding at
\* run time: while the application runs, the trigger and discard key strings
\* of its active configuration are strings that parse, whether they come
\* from the base configuration, a profile selected by a switch or the
\* command line.
C27_ActiveKeysParse ==
    kpc = "idle" => ~KeysRejected(config)

\* C28: the application never reaches the running state with a resolved
\* configuration whose model, device or mode is outside its allowed set.
C28_StartRejectsInvalidValues ==
    [][(Started /\ kpc' = "idle")
          => /\ config'.model \in VALID_MODELS
             /\ config'.device \in VALID_DEVICES
             /\ config'.mode \in VALID_RECORDING_MODES]_vars

\* C29: device-initialisation fallback: when the configured audio device
\* does not open and the default device does, the device manager's
\* preference is reset to the system default and the recorder is created on
\* the default device; when the default device does not open (and the
\* configured one, if any, did not either) the start fails with the audio
\* error and no application runs.
C29_DeviceInitFallback ==
    [][\A p \in StartProfiles, m \in StartModels, k \in StartKeys,
          d \in StartDevices, opens \in OpenableSets :
          (StartWithArgs(p, m, k, d, opens) /\ ~KeysRejected(config'))
            => LET dc == config'.audio_device
               IN  /\ (dc # "none" /\ dc \notin opens /\ "default" \in opens)
                        => /\ dm_device' = "none"
                           /\ audio_recorder' = NewRecorder("default")
                           /\ kpc' = "idle"
                   /\ ((dc = "none" \/ dc \notin opens)
                         /\ "default" \notin opens)
                        => /\ kpc' = "exited"
                           /\ Len(out') > 0
                           /\ out'[Len(out')] = "FatalAudio"]_vars

\* a process was started on a configured device that did not open and runs
\* on the default device
C29_Witness ==
    /\ out = <<"FallingBack", "Started">>
    /\ config.audio_device = "dev1"
    /\ dm_device = "none"
    /\ audio_recorder.device = "default"
    /\ kpc = "idle"

----------------------------------------------------------------------------
\* processes that hold the lock and run the application
Holders == {p \in Procs : procs[p].pc = "running"}

\* C30: while one process holds the single-instance lock, every other
\* process's attempt to acquire it fails at once and that process exits with
\* status 1 without starting the application: a process that tries the lock
\* while another runs the application does not come to run it, and the
\* holder goes on holding.
C30_SingleInstance ==
    [][\A p \in Procs :
          (LockFlock(p) /\ Holders # {})
            => (procs'[p].pc = "exit1" /\ Holders' = Holders)]_vars

----------------------------------------------------------------------------
----------------------------------------------------------------------------
\* C32: unknown-field tolerance: applying a stored profile whose diff holds
\* a field name the configuration schema does not have applies every field
\* it recognises, skips the unrecognised one with a warning and does not
\* raise: the switch to such a profile completes.
C32_UnknownFieldSkipped ==
    [][\A name \in StartSwitchNames :
          (/\ SwitchProfile(name)
           /\ name \in DOMAIN cm_config.profiles
           /\ name # DEFAULT_PROFILE
           /\ UnknownFields(cm_config.cfg, cm_config.profiles[name]) # {})
            => LET diff == cm_config.profiles[name]
               IN  /\ DOMAIN config' = DOMAIN cm_config.cfg
                   /\ \A f \in DOMAIN diff \cap DOMAIN cm_config.cfg :
                         config'[f] = diff[f]
                   /\ \A f \in DOMAIN cm_config.cfg \ (DOMAIN diff \cup
                                                        {"last_profile"}) :
                         config'[f] = cm_config.cfg[f]
                   /\ "UnknownFieldWarning" \in Range(out')
                   /\ Last(out') = "ProfileSwitchCompleted"]_vars

\* the profile with the field beam_size has just been applied
C32_Witness ==
    /\ Len(out) >= 3
    /\ out[2] = "legacy"
    /\ out[3] = "UnknownFieldWarning"
    /\ config.language = "es"
    /\ config.last_profile = "legacy"
    /\ "beam_size" \notin DOMAIN config

----------------------------------------------------------------------------
\* C33: in push-to-talk mode capture is active only while the trigger
\* combination is held down: in every state whose mode is push-to-talk and
\* in which a session is active, every member key of the trigger
\* combination is down.
C33_PushToTalkOnlyWhileHeld ==
    (config.mode = "push-to-talk" /\ ~tap_mode /\ is_recording)
      => Held(Parse(config.trigger_key), down)

----------------------------------------------------------------------------
\* C34: stopping a recording clears the trigger state: whenever a session
\* ends, by key release, by trigger toggle or by discard, the
\* trigger-pressed flag is cleared, so the flag is never true while no
\* session is active.
C34_NoSessionNoTriggerPressed == ~is_recording => ~trigger_pressed

----------------------------------------------------------------------------
\* Key handling under configurations whose discard key is a member of, or
\* equal to, the trigger combination.  Profiles as the configuration file may
\* hold them: nothing but HotKey.parse looks at the two keys.
KeyStore ==
    [tap    |-> ProfileStore.tap,
     same   |-> [mode |-> "tap-mode", trigger_key |-> "<f9>",
                 discard_key |-> "<f9>"],
     member |-> [mode |-> "tap-mode", trigger_key |-> "<ctrl>+<f9>",
                 discard_key |-> "<f9>"]]

KeyInit ==
    /\ entry = "package"
    /\ cm_config = [cfg |-> BaseConfig, profiles |-> KeyStore]
    /\ file = cm_config
    /\ current_profile \in DOMAIN KeyStore
    /\ config = ApplyProfileOver(cm_config, current_profile)
    /\ is_recording = FALSE
    /\ trigger_pressed = FALSE
    /\ recording_counter = 0
    /\ tap_mode = (config.mode = "tap-mode")
    /\ trigger_hotkey = TriggerHotKeyFor(config)
    /\ discard_hotkey = DiscardHotKeyFor(config)
    /\ audio_recorder = NewRecorder("dev0")
    /\ dm_device = "dev0"
    /\ orphans = 0
    /\ down = {}
    /\ kpc = "idle"
    /\ kkey = "none"
    /\ tpc = "idle"
    /\ out = <<>>
    /\ hist = <<>>
    /\ speech_processor = SpeechProcessorFor(config)
    /\ sp_old = SpeechProcessorFor(config)
    /\ handed = NoSession
    /\ lockfs = NoLockFile
    /\ procs = [p \in Procs |-> NotStarted]

KeyNext ==
    \/ \E key \in RawKeys : OnKeyPress(key)
    \/ \E key \in RawKeys : OnKeyRelease(key)
    \/ \E outcome \in {"text", "nospeech", "error", "typefail"} :
          TranscribeReturn(outcome)
    \/ AudioCallback

KeySpec == KeyInit /\ [][KeyNext]_vars

\* the semantic events a step has raised
SemanticCount(seq) == Cardinality({i \in DOMAIN seq : seq[i] \in SemanticEvents})

\* C35: a single key press or release produces at most one semantic event
\* (StartRecording, StopAndTranscribe or DiscardRecording); in tap-mode one
\* key press never both starts a recording and discards it, also when the
\* discard key is a member of, or equal to, the trigger combination.
C35_OneSemanticEventPerKeyEvent ==
    [][(KeyPressStep \/ KeyReleaseStep) => SemanticCount(out') <= 1]_vars

----------------------------------------------------------------------------
\* the configuration the two lower layers give a start: the selected profile
\* over the base, or the base itself in the default profile
Layered(loaded, p) ==
    LET use == IF p # "none" THEN p ELSE loaded.cfg.last_profile
    IN  IF use # DEFAULT_PROFILE THEN ApplyProfileOver(loaded, use)
        ELSE loaded.cfg

\* C36: a field is overridden by the command line only when its flag was
\* given; a start without --model, --key, --device, --language,
\* --discard-key and --trailing-space (args holds the parser's defaults)
\* resolves these fields to the value of the selected profile, or of the base
\* configuration where the profile does not set it.
C36_AbsentFlagKeepsLayeredValue ==
    [][\A p \in StartProfiles, d \in StartDevices, opens \in OpenableSets :
            (StartWithArgs(p, "large-v3", "<scroll_lock>", d, opens)
               /\ kpc' = "idle")
              => /\ config'.model = Layered(file, p).model
                 /\ config'.trigger_key = Layered(file, p).trigger_key
                 /\ config'.device = Layered(file, p).device
                 /\ config'.language = Layered(file, p).language
                 /\ config'.discard_key = Layered(file, p).discard_key
                 /\ config'.trailing_space = Layered(file, p).trailing_space]_vars

----------------------------------------------------------------------------
\* SpeechProcessor.__init__: every value the processor was constructed with;
\* the arguments the orchestrator does not pass take the constructor's
\* defaults
BuiltWith(sp) == sp @@ [vad_filter |-> TRUE, initial_prompt |-> ""]

\* C37: after initialization and after every completed profile switch the
\* active Transcriber was constructed with the model, device, language and
\* initial prompt of the currently resolved configuration.
C37_TranscriberMatchesConfig ==
    ("ValueError" \notin Range(out))
      => /\ BuiltWith(speech_processor).model = config.model
         /\ BuiltWith(speech_processor).device = config.device
         /\ BuiltWith(speech_processor).language = config.language
         /\ BuiltWith(speech_processor).initial_prompt = config.initial_prompt

----------------------------------------------------------------------------
\* C38: a profile switch is all-or-nothing: when it fails part-way (a key
\* string of the new profile does not parse) the orchestrator is left in its
\* pre-switch state: active configuration, hotkey bindings, Transcriber and
\* current-profile name are those of the old profile.
C38_FailedSwitchChangesNothing ==
    [][\A name \in StartSwitchNames :
         (SwitchProfile(name) /\ "ValueError" \in Range(out'))
           => /\ config' = config
              /\ current_profile' = current_profile
              /\ trigger_hotkey' = trigger_hotkey
              /\ discard_hotkey' = discard_hotkey
              /\ tap_mode' = tap_mode
              /\ speech_processor' = speech_processor]_vars

----------------------------------------------------------------------------
\* C39: after switch_audio_device(d) returns, the device the device manager
\* reports as current is the device the active recorder captures from: both
\* are d when d passes its input test, both the previous device when it
\* fails.
C39_ManagerAndRecorderAgree ==
    [][\A dev \in Devices, works \in BOOLEAN :
         (/\ SwitchAudioDevice(dev, works)
               \/ ScriptSwitchAudioDevice(dev, works)
          /\ dm_device = audio_recorder.device)
           => /\ dm_device' = audio_recorder'.device
              /\ works => dm_device' = dev
              /\ ~works => dm_device' = dm_device]_vars

----------------------------------------------------------------------------
\* C40: at no time do two live processes both hold the single-instance lock,
\* under every interleaving of one process releasing it (unlock, close,
\* unlink) with other processes acquiring it (open or create by path, then
\* non-blocking exclusive flock).
C40_AtMostOneHolder == Cardinality(Holders) <= 1

====
